---- MODULE Spec2Model ----
(***************************************************************************)
(* Model of the AutoRoom shared-state core: the JSON state store           *)
(* (state.py), the laser edge detector (sensors.py), the AC suggestion     *)
(* engine (smart_ac.py), the energy simulation (energy.py), the HTTP and   *)
(* voice handlers (web.py, voice_assistant.py) and startup (main.py).      *)
(*                                                                         *)
(* Units.  Python floats are scaled to integers:                           *)
(*   temperature, humidity, manual setpoint : tenths  (26.0 -> 260)        *)
(*   setpoint arithmetic in suggest_temp    : hundredths (27.0 -> 2700)    *)
(*   current_usage                          : hundredths of a kW           *)
(*   total_consumption                      : thousandths of a kWh         *)
(*   time() and laser_times                 : hundredths of a second       *)
(*   callback ticks                         : 16 microseconds, so that the *)
(*       32-bit microsecond counter of pigpio wraps at 2^28                *)
(* Python's None in an integer field is the value None (-1); every real    *)
(* value of such a field is >= 0.                                          *)
(***************************************************************************)
EXTENDS Integers, Sequences, FiniteSets, TLC

VARIABLES
    file,         \* state.json on disk: [kind, doc], doc the JSON text
    lock,         \* state._lock: "free" or the thread holding it
    fdLive,       \* reset_state's open handle still refers to state.json
    manual,       \* smart_ac._manual_setpoint (tenths) or None
    laser_times,  \* config.laser_times: [L1, L2]
    last_tick,    \* sensors.l1_last_tick / l2_last_tick: [L1, L2]
    now,          \* wall clock read by time()
    led,          \* level last written to the LED pins by update_leds
    pos,          \* pos[t]: where thread t stands in its code
    loc,          \* loc[t]: the local variables of thread t
    written,      \* history: [tracked, docs], the contents of the completed writes
    decision      \* history: what the last run of process_lasers decided

vars == <<file, lock, fdLive, manual, laser_times, last_tick, now, led, pos, loc,
          written, decision>>

----------------------------------------------------------------------------
\* Bounds of the model

MaxPeople == 2        \* handlers stop adding people at this count
MaxNow == 47          \* the wall clock stops advancing here
MaxOps == 2           \* requests served by one handler thread
MaxTicks == 1         \* iterations of one background loop

----------------------------------------------------------------------------
\* Program constants

None == -1
DEBOUNCE_MS == 20
TIME_THRESHOLD == 30
TickWidth == 28

Threads == {"main", "cb", "ac", "energy", "dht", "h1", "h2"}
Handlers == {"h1", "h2"}
Loops == {"ac", "energy", "dht"}

----------------------------------------------------------------------------
\* Documents

DefaultEnergy ==
    [current_usage |-> 0, total_consumption |-> 0, cost_usd |-> 0,
     cost_inr |-> 0, temperature |-> 260, humidity |-> 200, cost |-> 0,
     ac_suggestion |-> None, ac_current |-> None, ac_override |-> FALSE]

DefaultState == [people_count |-> 0, energy_data |-> DefaultEnergy]

\* reset_state's initial_data: no cost_usd and no cost_inr key
InitialData ==
    [people_count |-> 0,
     energy_data |->
        [temperature |-> 260, humidity |-> 200, current_usage |-> 0,
         total_consumption |-> 0, cost |-> 0, ac_suggestion |-> None,
         ac_current |-> None, ac_override |-> FALSE]]

\* dict.get(k, d)
Get(d, k, dflt) == IF k \in DOMAIN d THEN d[k] ELSE dflt

\* dict.update(u)
DictUpdate(d, u) ==
    [k \in (DOMAIN d) \cup (DOMAIN u) |-> IF k \in DOMAIN u THEN u[k] ELSE d[k]]

Max(a, b) == IF a >= b THEN a ELSE b
Min(a, b) == IF a <= b THEN a ELSE b

\* Python round() of x/unit to an integer: half to even
RoundHalfEven(x, unit) ==
    LET q == x \div unit
        r == x % unit
    IN  IF 2 * r < unit THEN q
        ELSE IF 2 * r > unit THEN q + 1
        ELSE IF q % 2 = 0 THEN q ELSE q + 1

----------------------------------------------------------------------------
\* state.py: disk access

\* json.dump and json.load.  The text of a value is a token: null, true,
\* false or a number.  Python chooses the token by the type of the value; the
\* integers of this model carry no type, so the key tells which values are
\* booleans and which may be None.
Nullable == {"ac_suggestion", "ac_current"}

Dumps(k, v) ==
    IF k = "ac_override" THEN [t |-> IF v THEN "true" ELSE "false", v |-> 0]
    ELSE IF k \in Nullable /\ v = None THEN [t |-> "null", v |-> 0]
    ELSE [t |-> "number", v |-> v]

\* an encoder that writes None as the number 0
DumpsNoNull(k, v) ==
    IF k = "ac_override" THEN [t |-> IF v THEN "true" ELSE "false", v |-> 0]
    ELSE IF k \in Nullable /\ v = None THEN [t |-> "number", v |-> 0]
    ELSE [t |-> "number", v |-> v]

Loads(tok) ==
    CASE tok.t = "true" -> TRUE
      [] tok.t = "false" -> FALSE
      [] tok.t = "null" -> None
      [] OTHER -> tok.v

JsonDumpNoNull(doc) ==
    [people_count |-> DumpsNoNull("people_count", doc.people_count),
     energy_data |-> [k \in DOMAIN doc.energy_data |-> DumpsNoNull(k, doc.energy_data[k])]]

JsonDump(doc) ==
    [people_count |-> Dumps("people_count", doc.people_count),
     energy_data |-> [k \in DOMAIN doc.energy_data |-> Dumps(k, doc.energy_data[k])]]

JsonLoad(text) ==
    [people_count |-> Loads(text.people_count),
     energy_data |-> [k \in DOMAIN text.energy_data |-> Loads(text.energy_data[k])]]

\* a fallback to reset_state's document instead of _default_state
ReadFromDiskInitial(f) == IF f.kind = "json" THEN JsonLoad(f.doc) ELSE InitialData

ReadFromDisk(f) == IF f.kind = "json" THEN JsonLoad(f.doc) ELSE DefaultState

OnDisk(doc) == [kind |-> "json", doc |-> JsonDump(doc)]

\* a file that is not there, or does not parse: its text is never used
Truncated == [kind |-> "partial", doc |-> JsonDump(DefaultState)]

Missing == [kind |-> "missing", doc |-> JsonDump(DefaultState)]

PeopleCount(f) == ReadFromDisk(f).people_count

EnergyData(f) == ReadFromDisk(f).energy_data

\* max(0, int(value))
ClampCountUnclamped(n) == n

ClampCount(n) == Max(0, n)

\* st = get_state(); ed.update(updates); st["energy_data"] = ed
UpdateEnergyRead(f, updates) ==
    [ReadFromDisk(f) EXCEPT !.energy_data = DictUpdate(@, updates)]

----------------------------------------------------------------------------
\* smart_ac.py: suggest_temp, from the values it read

BaseSetpoint(p) ==
    IF p = 0 THEN 2700
    ELSE IF p = 1 THEN 2500
    ELSE 2400 - Min(120, 15 * (p - 1))

\* suggest_temp without the nudge of lines 77-78
SuggestAutoUnnudged(p, indoor, hum) ==
    LET b0 == BaseSetpoint(p)
        b1 == IF hum > 600 THEN b0 - 50 ELSE b0
    IN  RoundHalfEven(Max(1800, Min(2700, b1)), 100)

SuggestAuto(p, indoor, hum) ==
    LET b0 == BaseSetpoint(p)
        b1 == IF hum > 600 THEN b0 - 50 ELSE b0
        b2 == IF indoor * 10 <= b1 + 50 THEN Min(b1 + 100, 2700) ELSE b1
        b3 == Max(1800, Min(2700, b2))
    IN  RoundHalfEven(b3, 100)

RoundSetpoint(v) == RoundHalfEven(v, 10)

----------------------------------------------------------------------------
\* Threads: positions and locals

NoUpdates == [k \in {} |-> 0]

LocInit ==
    [st |-> DefaultState, p |-> 0, s |-> None, err |-> FALSE, ret |-> "idle",
     sret |-> "idle", caller |-> "none", delta |-> 0, upd |-> NoUpdates,
     current |-> 0, n |-> 0]

\* the locals of a thread between two operations: only its request count stays
Rest(l) == [LocInit EXCEPT !.n = l.n]

Goto(t, p) == pos' = [pos EXCEPT ![t] = p]

\* thread t moves to position p with locals l; back at "idle" its frame is gone
Step(t, p, l) ==
    /\ pos' = [pos EXCEPT ![t] = p]
    /\ loc' = [loc EXCEPT ![t] = IF p \in {"idle", "serve", "dead"} THEN Rest(l) ELSE l]

Sensors == <<laser_times, last_tick, now, decision>>

\* the history of completed writes is kept from the start of the process; a
\* specification that starts in mid-life does not know it and leaves it alone
Completed(doc) ==
    IF written.tracked THEN [written EXCEPT !.docs = @ \cup {doc}] ELSE written

----------------------------------------------------------------------------
\* state.py: save_state = with _lock: _write_to_disk(state)

\* lock acquired; the document goes to state.json.tmp
SaveAcquire(t) ==
    /\ pos[t] = "save_acq"
    /\ lock = "free"
    /\ lock' = t
    /\ Goto(t, "save_rep")
    /\ UNCHANGED <<file, fdLive, manual, Sensors, led, loc, written>>

\* os.replace(tmp, STATE_FILE), then the lock is released.  A handle that
\* reset_state still holds now refers to the unlinked old file.
SaveReplace(t) ==
    /\ pos[t] = "save_rep"
    /\ lock = t
    /\ file' = OnDisk(loc[t].st)
    /\ fdLive' = FALSE
    /\ lock' = "free"
    /\ written' = Completed(loc[t].st)
    /\ Step(t, loc[t].ret, loc[t])
    /\ UNCHANGED <<manual, Sensors, led>>

\* where a thread goes when save_state raises: the second save of
\* incr_people is inside its try, a request ends with an error response, a
\* loop thread ends
AfterSaveError(t) ==
    IF loc[t].caller \in {"voice", "index", "lasers"} /\ loc[t].sret # "incr_ac"
       THEN loc[t].ret
    ELSE IF t \in Handlers THEN "idle"
    ELSE "dead"

\* a write that fails and a with block that keeps the lock
SaveFailHeld(t) ==
    /\ pos[t] = "save_rep"
    /\ lock = t
    /\ Step(t, AfterSaveError(t), loc[t])
    /\ UNCHANGED <<file, lock, fdLive, manual, Sensors, led, written>>

\* _write_to_disk raises (open, json.dump or os.replace fails): the with
\* block releases the lock and the error leaves save_state
SaveFail(t) ==
    /\ pos[t] = "save_rep"
    /\ lock = t
    /\ lock' = "free"
    /\ Step(t, AfterSaveError(t), loc[t])
    /\ UNCHANGED <<file, fdLive, manual, Sensors, led, written>>

\* update_energy_data, first half: get_state and the dict update
UedGet(t) ==
    /\ pos[t] = "ued_get"
    /\ lock = "free"
    /\ Step(t, "save_acq", [loc[t] EXCEPT !.st = UpdateEnergyRead(file, loc[t].upd)])
    /\ UNCHANGED <<file, lock, fdLive, manual, Sensors, led, written>>

\* set_people_count, first half: get_state and the clamped assignment
SetPeopleRead(f, value) == [ReadFromDisk(f) EXCEPT !.people_count = ClampCount(value)]

SpcGet(t) ==
    /\ pos[t] = "spc_get"
    /\ lock = "free"
    /\ Step(t, "save_acq", [loc[t] EXCEPT !.st = SetPeopleRead(file, loc[t].delta)])
    /\ UNCHANGED <<file, lock, fdLive, manual, Sensors, led, written>>

----------------------------------------------------------------------------
\* state.py: reset_state, called by main before the other threads start

\* open(STATE_FILE, "w") truncates the file in place, without the lock
ResetOpen ==
    /\ pos["main"] = "reset_open"
    /\ file' = Truncated
    /\ fdLive' = TRUE
    /\ Goto("main", "reset_write")
    /\ UNCHANGED <<lock, manual, Sensors, led, loc, written>>

\* json.dump and close: the content reaches the file the handle refers to
ResetWrite ==
    /\ pos["main"] = "reset_write"
    /\ file' = IF fdLive THEN OnDisk(InitialData) ELSE file
    /\ fdLive' = FALSE
    /\ written' = Completed(InitialData)
    /\ Goto("main", "start")
    /\ UNCHANGED <<lock, manual, Sensors, led, loc>>

----------------------------------------------------------------------------
\* smart_ac.py: suggest_temp, one step per shared read

SuggP(t) ==
    /\ pos[t] = "sugg_p"
    /\ lock = "free"
    /\ Step(t, "sugg_ed", [loc[t] EXCEPT !.p = PeopleCount(file)])
    /\ UNCHANGED <<file, lock, fdLive, manual, Sensors, led, written>>

SuggEd(t) ==
    /\ pos[t] = "sugg_ed"
    /\ lock = "free"
    /\ LET ed == EnergyData(file)
           s == SuggestAuto(loc[t].p, Get(ed, "temperature", 220), Get(ed, "humidity", 400))
       IN  Step(t, "sugg_chk", [loc[t] EXCEPT !.s = s])
    /\ UNCHANGED <<file, lock, fdLive, manual, Sensors, led, written>>

\* if _manual_setpoint is not None
SuggChk(t) ==
    /\ pos[t] = "sugg_chk"
    /\ IF manual # None
          THEN Step(t, "sugg_use", loc[t])
          ELSE Step(t, loc[t].sret, loc[t])
    /\ UNCHANGED <<file, lock, fdLive, manual, Sensors, led, written>>

\* return int(round(_manual_setpoint)): the global is read again, and
\* round(None) raises TypeError
SuggUse(t) ==
    /\ pos[t] = "sugg_use"
    /\ IF manual = None
          THEN Step(t, loc[t].sret, [loc[t] EXCEPT !.err = TRUE])
          ELSE Step(t, loc[t].sret, [loc[t] EXCEPT !.s = RoundSetpoint(manual)])
    /\ UNCHANGED <<file, lock, fdLive, manual, Sensors, led, written>>

\* suggest_temp (or the import of smart_ac before it) raises
SuggFail(t) ==
    /\ pos[t] = "sugg_p"
    /\ Step(t, loc[t].sret, [loc[t] EXCEPT !.err = TRUE])
    /\ UNCHANGED <<file, lock, fdLive, manual, Sensors, led, written>>

----------------------------------------------------------------------------
\* state.py: incr_people

\* where incr_people returns to, and where the caller's own suggest_temp
\* call (web.py) returns to
AfterIncr(caller) ==
    CASE caller = "lasers" -> "pl_clear"
      [] caller = "index" -> "sugg_p"
      [] OTHER -> "idle"

AfterSuggest(caller) == IF caller = "index" THEN "idx_ed" ELSE "idle"

IncrRead(f, delta) ==
    [ReadFromDisk(f) EXCEPT !.people_count = ClampCount(@ + delta)]

\* st = get_state(); pc = max(0, pc + delta); st["people_count"] = pc
IncrGet(t) ==
    /\ pos[t] = "incr_get"
    /\ lock = "free"
    /\ Step(t, "save_acq",
            [loc[t] EXCEPT !.st = IncrRead(file, loc[t].delta),
                           !.ret = "sugg_p", !.sret = "incr_ac"])
    /\ UNCHANGED <<file, lock, fdLive, manual, Sensors, led, written>>

\* incr_people without lines 119-127
IncrAcFieldsKept(ed, s) == ed

\* lines 119-127, on the document read at the start of incr_people
IncrAcFields(ed, s) ==
    IF Get(ed, "ac_override", FALSE)
       THEN DictUpdate(ed, [ac_suggestion |-> s])
       ELSE DictUpdate(ed, [ac_suggestion |-> s, ac_current |-> s, ac_override |-> FALSE])

\* incr_people without its try/except: an error in the recomputation ends
\* the calling thread
IncrAcUncaught(t) ==
    /\ pos[t] = "incr_ac"
    /\ IF loc[t].err
          THEN Step(t, "dead", loc[t])
          ELSE Step(t, "save_acq",
                    [loc[t] EXCEPT !.st.energy_data = IncrAcFields(@, loc[t].s),
                                   !.ret = AfterIncr(loc[t].caller),
                                   !.sret = AfterSuggest(loc[t].caller)])
    /\ UNCHANGED <<file, lock, fdLive, manual, Sensors, led, written>>

IncrAc(t) ==
    /\ pos[t] = "incr_ac"
    /\ IF loc[t].err
          THEN Step(t, AfterIncr(loc[t].caller),
                    [loc[t] EXCEPT !.err = FALSE, !.sret = AfterSuggest(loc[t].caller)])
          ELSE Step(t, "save_acq",
                    [loc[t] EXCEPT !.st.energy_data = IncrAcFields(@, loc[t].s),
                                   !.ret = AfterIncr(loc[t].caller),
                                   !.sret = AfterSuggest(loc[t].caller)])
    /\ UNCHANGED <<file, lock, fdLive, manual, Sensors, led, written>>

----------------------------------------------------------------------------
\* sensors.py: update_leds, and what its callers do after it

LedLevel(pc) == IF pc >= 1 THEN 0 ELSE 1

\* what follows update_leds: draw_face in index (web.py line 60), else nothing
AfterLeds(caller) == IF caller = "index" THEN "draw" ELSE "idle"

Leds(t) ==
    /\ pos[t] = "leds"
    /\ lock = "free"
    /\ led' = LedLevel(PeopleCount(file))
    /\ Step(t, AfterLeds(loc[t].caller), loc[t])
    /\ UNCHANGED <<file, lock, fdLive, manual, Sensors, written>>

\* pi.write raises for every pin: caught and logged, the LEDs stay as they were
LedsFail(t) ==
    /\ pos[t] = "leds"
    /\ lock = "free"
    /\ Step(t, AfterLeds(loc[t].caller), loc[t])
    /\ UNCHANGED <<file, lock, fdLive, manual, Sensors, led, written>>

\* draw_face(mouth_open=True) in index: it returns, or it raises and the
\* request ends with an error response; it writes nothing either way
DrawFace(t) ==
    /\ pos[t] = "draw"
    /\ Step(t, "idle", loc[t])
    /\ UNCHANGED <<file, lock, fdLive, manual, Sensors, led, written>>

----------------------------------------------------------------------------
\* sensors.py: the callbacks, run one at a time by the pigpio callback thread

\* the 32-bit microsecond tick of an edge seen when the wall clock shows n;
\* the counter wraps TickWrapAt hundredths of a second after the clock starts
TickWrapAt == 20

TickOf(n) == ((2 ^ TickWidth) - TickWrapAt * 625 + n * 625) % (2 ^ TickWidth)

Abs(x) == IF x < 0 THEN -x ELSE x

Cleared == [L1 |-> 0, L2 |-> 0]

\* a callback that lets every event through
BounceNever(tick, last) == FALSE

\* tick - last < DEBOUNCE_MS * 1000
Bounce(tick, last) == tick - last < (DEBOUNCE_MS * 1000) \div 16

\* the pairing decision of process_lasers on the recorded timestamps:
\* "wait" (one is missing), "stale", "entry", "exit", "same"
PairingUnwindowed(t1, t2) ==
    IF t1 = 0 \/ t2 = 0 THEN "wait"
    ELSE IF t2 - t1 > 0 THEN "entry"
    ELSE IF t2 - t1 < 0 THEN "exit"
    ELSE "same"

PairingSwapped(t1, t2) ==
    IF t1 = 0 \/ t2 = 0 THEN "wait"
    ELSE IF Abs(t2 - t1) > TIME_THRESHOLD THEN "stale"
    ELSE IF t2 - t1 > 0 THEN "exit"
    ELSE IF t2 - t1 < 0 THEN "entry"
    ELSE "same"

\* dt >= 0 taken for an entry
PairingTieEntry(t1, t2) ==
    IF t1 = 0 \/ t2 = 0 THEN "wait"
    ELSE IF Abs(t2 - t1) > TIME_THRESHOLD THEN "stale"
    ELSE IF t2 - t1 >= 0 THEN "entry"
    ELSE "exit"

Pairing(t1, t2) ==
    IF t1 = 0 \/ t2 = 0 THEN "wait"
    ELSE IF Abs(t2 - t1) > TIME_THRESHOLD THEN "stale"
    ELSE IF t2 - t1 > 0 THEN "entry"
    ELSE IF t2 - t1 < 0 THEN "exit"
    ELSE "same"

\* laser_times when process_lasers returns or calls incr_people
AfterPairingKept(lt) == lt

\* a process_lasers that drops a timestamp it cannot pair yet
AfterPairingDropped(lt) ==
    IF Pairing(lt.L1, lt.L2) \in {"entry", "exit"} THEN lt ELSE Cleared

AfterPairing(lt) ==
    IF Pairing(lt.L1, lt.L2) \in {"stale", "same"} THEN Cleared ELSE lt

\* process_lasers up to its first store call, on timestamps lt
ProcessLasers(lt) ==
    LET d == Pairing(lt.L1, lt.L2)
    IN  /\ d = "entry" => PeopleCount(file) < MaxPeople
        /\ decision' = d
        /\ laser_times' = AfterPairing(lt)
        /\ CASE d = "entry" ->
                  Step("cb", "incr_get", [loc["cb"] EXCEPT !.delta = 1, !.caller = "lasers"])
             [] d = "exit" ->
                  Step("cb", "incr_get", [loc["cb"] EXCEPT !.delta = -1, !.caller = "lasers"])
             [] d = "same" -> Step("cb", "leds", loc["cb"])
             [] OTHER -> Step("cb", "idle", loc["cb"])

Callback(ch, level) ==
    /\ pos["cb"] = "idle"
    /\ IF Bounce(TickOf(now), last_tick[ch])
          THEN UNCHANGED <<laser_times, last_tick, pos, loc, decision>>
          ELSE /\ last_tick' = [last_tick EXCEPT ![ch] = TickOf(now)]
               /\ IF level = 0
                     THEN ProcessLasers([laser_times EXCEPT ![ch] = now])
                     ELSE UNCHANGED <<laser_times, pos, loc, decision>>
    /\ UNCHANGED <<file, lock, fdLive, manual, now, led, written>>

l1_callback == \E level \in {0, 1} : Callback("L1", level)

l2_callback == \E level \in {0, 1} : Callback("L2", level)

\* process_lasers without lines 81-82: the pair stays recorded
PlClearKept ==
    /\ pos["cb"] = "pl_clear"
    /\ Step("cb", "leds", loc["cb"])
    /\ UNCHANGED <<file, lock, fdLive, manual, laser_times, last_tick, now, led, written,
                   decision>>

\* process_lasers after incr_people returned: lines 81-82, then update_leds
PlClear ==
    /\ pos["cb"] = "pl_clear"
    /\ laser_times' = Cleared
    /\ Step("cb", "leds", loc["cb"])
    /\ UNCHANGED <<file, lock, fdLive, manual, last_tick, now, led, written, decision>>

\* time passes: by less than the pairing window or by more (an event that
\* follows another with no step between them comes within the debounce
\* time).  Only a callback reads the clock, and it does so when it starts,
\* so time that passes while the callback thread is busy is taken to pass
\* when the thread is idle again.
ClockSteps == {15, 31}

Advance ==
    /\ pos["cb"] = "idle"
    /\ \E d \in ClockSteps :
          /\ now + d <= MaxNow
          /\ now' = now + d
    /\ UNCHANGED <<file, lock, fdLive, manual, laser_times, last_tick, led, pos, loc,
                   written, decision>>

----------------------------------------------------------------------------
\* web.py and main.py: the recomputation after a change

\* lines 37-43 of web.py, 37-44 of main.py: the updates chosen from the
\* energy data just read
RecomputeUpdates(ed, s) ==
    IF Get(ed, "ac_override", FALSE)
       THEN [ac_suggestion |-> s]
       ELSE [ac_suggestion |-> s, ac_current |-> s, ac_override |-> FALSE]

\* suggest_temp has returned to thread t; next is where t goes afterwards
Recompute(t, next) ==
    \/ /\ loc[t].err
       /\ Step(t, next, [loc[t] EXCEPT !.err = FALSE])
    \/ /\ ~loc[t].err
       /\ lock = "free"
       /\ Step(t, "ued_get",
               [loc[t] EXCEPT !.upd = RecomputeUpdates(EnergyData(file), loc[t].s),
                              !.ret = next])

\* a handler thread takes a request once main has reached run_server
Serving(t) ==
    /\ pos["main"] = "serve"
    /\ pos[t] = "idle"
    /\ loc[t].n < MaxOps

Took(t) == [loc[t] EXCEPT !.n = @ + 1]

\* POST / with "increase" or "decrease"
IndexPost(t) ==
    /\ Serving(t)
    /\ \E d \in {1, -1} :
          /\ d = 1 => PeopleCount(file) < MaxPeople
          /\ Step(t, "incr_get", [Took(t) EXCEPT !.delta = d, !.caller = "index"])
    /\ UNCHANGED <<file, lock, fdLive, manual, Sensors, led, written>>

IdxEd(t) ==
    /\ pos[t] = "idx_ed"
    /\ Recompute(t, "leds")
    /\ UNCHANGED <<file, lock, fdLive, manual, Sensors, led, written>>

----------------------------------------------------------------------------
\* smart_ac.py: the manual override, called from /ac/override[/clear]

\* float(val) of the request: any number, 30.0 included
Setpoints == {200, 225, 300}

\* _manual_setpoint = float(value)
ApplyManual(t) ==
    /\ Serving(t)
    /\ \E v \in Setpoints : manual' = v
    /\ Step(t, "ams_upd", [Took(t) EXCEPT !.caller = "apply"])
    /\ UNCHANGED <<file, lock, fdLive, Sensors, led, written>>

OverrideUpdates(v) == [ac_override |-> TRUE, ac_current |-> RoundSetpoint(v)]

\* the argument of update_energy_data reads the global again; a TypeError
\* from round(None) is swallowed by the except
AmsUpd(t) ==
    /\ pos[t] = "ams_upd"
    /\ IF manual = None
          THEN Step(t, "idle", loc[t])
          ELSE Step(t, "ued_get", [loc[t] EXCEPT !.upd = OverrideUpdates(manual), !.ret = "idle"])
    /\ UNCHANGED <<file, lock, fdLive, manual, Sensors, led, written>>

ClearUpdates == [ac_override |-> FALSE]

ClearManual(t) ==
    /\ Serving(t)
    /\ manual' = None
    /\ Step(t, "ued_get", [Took(t) EXCEPT !.upd = ClearUpdates, !.ret = "idle", !.caller = "clear"])
    /\ UNCHANGED <<file, lock, fdLive, Sensors, led, written>>

----------------------------------------------------------------------------
\* voice_assistant.py: interpret_and_execute, reached through POST /voice.
\* Its imports of sensors, display and smart_ac are absolute and those
\* modules import relatively, so update_leds, draw_face and smart_ac are None.

\* "lights off": set_people_count(0)
VoiceLightsOff(t) ==
    /\ Serving(t)
    /\ Step(t, "spc_get", [Took(t) EXCEPT !.delta = 0, !.ret = "idle"])
    /\ UNCHANGED <<file, lock, fdLive, manual, Sensors, led, written>>

\* "lights on": if get_people_count() < 1: set_people_count(1)
VoiceLightsOn(t) ==
    /\ Serving(t)
    /\ lock = "free"
    /\ IF PeopleCount(file) < 1
          THEN Step(t, "spc_get", [Took(t) EXCEPT !.delta = 1, !.ret = "idle"])
          ELSE Step(t, "idle", Took(t))
    /\ UNCHANGED <<file, lock, fdLive, manual, Sensors, led, written>>

\* "increase people": incr_people(1)
VoiceIncrease(t) ==
    /\ Serving(t)
    /\ PeopleCount(file) < MaxPeople
    /\ Step(t, "incr_get", [Took(t) EXCEPT !.delta = 1, !.caller = "voice"])
    /\ UNCHANGED <<file, lock, fdLive, manual, Sensors, led, written>>

\* "decrease people": incr_people(-1)
VoiceDecrease(t) ==
    /\ Serving(t)
    /\ Step(t, "incr_get", [Took(t) EXCEPT !.delta = -1, !.caller = "voice"])
    /\ UNCHANGED <<file, lock, fdLive, manual, Sensors, led, written>>

\* "set temp to N": the local override branch
VoiceSetTemp(t) ==
    /\ Serving(t)
    /\ \E v \in Setpoints :
          Step(t, "ued_get", [Took(t) EXCEPT !.upd = OverrideUpdates(v), !.ret = "idle",
                                             !.caller = "settemp"])
    /\ UNCHANGED <<file, lock, fdLive, manual, Sensors, led, written>>

----------------------------------------------------------------------------
\* smart_ac.py: suggestion_loop

Looping(t) ==
    /\ pos[t] = "idle"
    /\ loc[t].n < MaxTicks

AcTick ==
    /\ Looping("ac")
    /\ Step("ac", "sugg_p", [Took("ac") EXCEPT !.sret = "ac_upd1"])
    /\ UNCHANGED <<file, lock, fdLive, manual, Sensors, led, written>>

\* s = suggest_temp() has returned, or raised and ended the thread
AcUpd1 ==
    /\ pos["ac"] = "ac_upd1"
    /\ IF loc["ac"].err
          THEN Step("ac", "dead", loc["ac"])
          ELSE Step("ac", "ued_get",
                    [loc["ac"] EXCEPT !.upd = [ac_suggestion |-> loc["ac"].s],
                                      !.ret = "ac_chk"])
    /\ UNCHANGED <<file, lock, fdLive, manual, Sensors, led, written>>

FollowUpdates(s) == [ac_current |-> s, ac_override |-> FALSE]

\* if _manual_setpoint is not None
AcChk ==
    /\ pos["ac"] = "ac_chk"
    /\ IF manual # None
          THEN Step("ac", "ac_use", loc["ac"])
          ELSE Step("ac", "ued_get",
                    [loc["ac"] EXCEPT !.upd = FollowUpdates(loc["ac"].s), !.ret = "idle"])
    /\ UNCHANGED <<file, lock, fdLive, manual, Sensors, led, written>>

PinUpdates(v) == [ac_current |-> RoundSetpoint(v), ac_override |-> TRUE]

\* int(round(_manual_setpoint)): read again, outside any try
AcUse ==
    /\ pos["ac"] = "ac_use"
    /\ IF manual = None
          THEN Step("ac", "dead", loc["ac"])
          ELSE Step("ac", "ued_get",
                    [loc["ac"] EXCEPT !.upd = PinUpdates(manual), !.ret = "idle"])
    /\ UNCHANGED <<file, lock, fdLive, manual, Sensors, led, written>>

----------------------------------------------------------------------------
\* energy.py: simulate_energy_data

\* random.uniform(-0.02, 0.02), after round(base + var, 2)
Noise == -2 .. 2

ZeroUpdates ==
    [current_usage |-> 0, total_consumption |-> 0, cost_usd |-> 0, cost_inr |-> 0, cost |-> 0]

\* _compute_inr_cost on thousandths of a kWh, in hundredths of a rupee
ComputeInrCost(kwh) ==
    LET t1 == Min(kwh, 100000)
        r1 == kwh - t1
        t2 == Min(r1, 100000)
        r2 == r1 - t2
        t3 == Min(r2, 600000)
        r3 == r2 - t3
        t4 == Min(r3, 200000)
        t5 == r3 - t4
    IN  RoundHalfEven(t2 * 235 + t3 * 650 + t4 * 1050 + t5 * 1200, 1000)

\* lines 66-80: the updates computed from the energy data just read
EnergyUpdates(ed, current) ==
    LET total == Get(ed, "total_consumption", 0) + RoundHalfEven(current, 360)
        inr == ComputeInrCost(total)
    IN  [current_usage |-> current, total_consumption |-> total,
         cost_usd |-> RoundHalfEven(total * 12, 1000), cost_inr |-> inr, cost |-> inr]

EnergyTick ==
    /\ Looping("energy")
    /\ lock = "free"
    /\ LET pc == PeopleCount(file)
       IN  IF pc = 0
              THEN Step("energy", "ued_get",
                        [Took("energy") EXCEPT !.upd = ZeroUpdates, !.ret = "idle"])
              ELSE \E v \in Noise :
                      Step("energy", "en_ed",
                           [Took("energy") EXCEPT !.current = Max(0, pc * 20 + v)])
    /\ UNCHANGED <<file, lock, fdLive, manual, Sensors, led, written>>

EnergyEd ==
    /\ pos["energy"] = "en_ed"
    /\ lock = "free"
    /\ Step("energy", "ued_get",
            [loc["energy"] EXCEPT !.upd = EnergyUpdates(EnergyData(file), loc["energy"].current),
                                  !.ret = "idle"])
    /\ UNCHANGED <<file, lock, fdLive, manual, Sensors, led, written>>

----------------------------------------------------------------------------
\* sensors.py: read_dht_sensor

DhtTemps == {220, 300}
DhtHums == {400, 700}

DhtRead ==
    /\ Looping("dht")
    /\ \E temp \in DhtTemps, hum \in DhtHums :
          Step("dht", "ued_get",
               [Took("dht") EXCEPT !.upd = [temperature |-> temp, humidity |-> hum],
                                   !.ret = "idle"])
    /\ UNCHANGED <<file, lock, fdLive, manual, Sensors, led, written>>

----------------------------------------------------------------------------
\* main.py: startup after reset_state

\* the DHT, energy and suggestion threads start; main calls suggest_temp
MainStart ==
    /\ pos["main"] = "start"
    /\ pos' = [t \in Threads |->
                 IF t = "main" THEN "sugg_p"
                 ELSE IF t \in Loops THEN "idle"
                 ELSE pos[t]]
    /\ loc' = [loc EXCEPT !["main"].sret = "main_ed"]
    /\ UNCHANGED <<file, lock, fdLive, manual, Sensors, led, written>>

MainEd ==
    /\ pos["main"] = "main_ed"
    /\ Recompute("main", "serve")
    /\ UNCHANGED <<file, lock, fdLive, manual, Sensors, led, written>>

----------------------------------------------------------------------------
\* Initial states

\* what a previous run left in state.json with n people in the room
PrevRun(n) ==
    [InitialData EXCEPT
        !.people_count = n,
        !.energy_data = DictUpdate(@, [ac_suggestion |-> SuggestAuto(n, 260, 200),
                                       ac_current |-> SuggestAuto(n, 260, 200)])]

Quiet ==
    /\ lock = "free"
    /\ fdLive = FALSE
    /\ manual = None
    /\ laser_times = Cleared
    /\ last_tick = [L1 |-> 0, L2 |-> 0]
    /\ now = 1
    /\ decision = "none"
    /\ loc = [t \in Threads |-> LocInit]

\* the process has been started: the modules are imported (callbacks
\* registered, LEDs set once), main is about to call reset_state
InitBoot ==
    /\ file \in {Missing} \cup {OnDisk(PrevRun(n)) : n \in 1 .. MaxPeople}
    /\ written = [tracked |-> TRUE,
                  docs |-> IF file.kind = "json" THEN {ReadFromDisk(file)} ELSE {}]
    /\ led = LedLevel(PeopleCount(file))
    /\ pos = [t \in Threads |->
                IF t = "main" THEN "reset_open"
                ELSE IF t \in Loops THEN "off"
                ELSE "idle"]
    /\ Quiet

\* startup has completed undisturbed and n people have entered since
Running(n) ==
    /\ file = OnDisk(PrevRun(n))
    /\ written = [tracked |-> FALSE, docs |-> {}]
    /\ led = LedLevel(n)
    /\ pos = [t \in Threads |-> IF t = "main" THEN "serve" ELSE "idle"]
    /\ Quiet

----------------------------------------------------------------------------
\* Specifications

\* handler threads that only call incr_people(1)
NextIncr ==
    \E t \in Handlers :
        \/ VoiceIncrease(t)
        \/ IncrGet(t)
        \/ SaveAcquire(t)
        \/ SaveReplace(t)
        \/ SuggP(t)
        \/ SuggEd(t)
        \/ SuggChk(t)
        \/ IncrAc(t)

SpecIncr == Running(0) /\ [][NextIncr]_vars

\* one handler calling incr_people(1) beside the energy loop, one person inside
NextEnergy ==
    \/ VoiceIncrease("h1")
    \/ EnergyTick
    \/ EnergyEd
    \/ \E t \in {"h1", "energy"} :
          \/ IncrGet(t)
          \/ SaveAcquire(t)
          \/ SaveReplace(t)
          \/ SuggP(t)
          \/ SuggEd(t)
          \/ SuggChk(t)
          \/ IncrAc(t)
          \/ UedGet(t)

SpecEnergy == Running(1) /\ [][NextEnergy]_vars

\* the handlers changing the count through incr_people and set_people_count
NextCount ==
    \E t \in Handlers :
        \/ VoiceIncrease(t)
        \/ VoiceDecrease(t)
        \/ VoiceLightsOff(t)
        \/ VoiceLightsOn(t)
        \/ SpcGet(t)
        \/ IncrGet(t)
        \/ SaveAcquire(t)
        \/ SaveReplace(t)
        \/ SuggP(t)
        \/ SuggEd(t)
        \/ SuggChk(t)
        \/ IncrAc(t)

SpecCount == (\E n \in 0 .. 1 : Running(n)) /\ [][NextCount]_vars

\* startup: main resets the store while the callback thread is already live
NextBoot ==
    \/ ResetOpen
    \/ ResetWrite
    \/ MainStart
    \/ MainEd
    \/ l1_callback
    \/ l2_callback
    \/ PlClear
    \/ Advance
    \/ \E t \in {"main", "cb"} :
          \/ Leds(t)
          \/ IncrGet(t)
          \/ SaveAcquire(t)
          \/ SaveReplace(t)
          \/ SuggP(t)
          \/ SuggEd(t)
          \/ SuggChk(t)
          \/ IncrAc(t)
          \/ UedGet(t)

SpecBoot == InitBoot /\ [][NextBoot]_vars

\* the edge detector at work, beside one handler serving POST /
NextSensor ==
    \/ l1_callback
    \/ l2_callback
    \/ PlClear
    \/ Advance
    \/ IndexPost("h1")
    \/ IdxEd("h1")
    \/ DrawFace("h1")
    \/ \E t \in {"cb", "h1"} :
          \/ Leds(t)
          \/ IncrGet(t)
          \/ SaveAcquire(t)
          \/ SaveReplace(t)
          \/ SuggP(t)
          \/ SuggEd(t)
          \/ SuggChk(t)
          \/ IncrAc(t)
          \/ UedGet(t)

SpecSensor == Running(1) /\ [][NextSensor]_vars

\* the override: the suggestion loop beside handlers that set and clear the
\* manual setpoint and change the count
NextAC ==
    \/ AcTick
    \/ AcUpd1
    \/ AcChk
    \/ AcUse
    \/ \E t \in {"h1"} :
          \/ ApplyManual(t)
          \/ AmsUpd(t)
          \/ ClearManual(t)
          \/ VoiceSetTemp(t)
          \/ VoiceIncrease(t)
    \/ \E t \in {"ac", "h1"} :
          \/ IncrGet(t)
          \/ SaveAcquire(t)
          \/ SaveReplace(t)
          \/ SuggP(t)
          \/ SuggEd(t)
          \/ SuggChk(t)
          \/ SuggUse(t)
          \/ IncrAc(t)
          \/ UedGet(t)

SpecAC == Running(0) /\ [][NextAC]_vars

----------------------------------------------------------------------------
\* The claims

AtRest(t) == pos[t] = "idle"

\* C1: when every handler thread has run incr_people(1) exactly once from a
\* count of 0 and has returned, the persisted people_count is the number of
\* threads: no increment is lost.
C1_NoLostIncrement ==
    (\A t \in Handlers : AtRest(t) /\ loc[t].n = 1)
        => PeopleCount(file) = Cardinality(Handlers)

\* C2: when incr_people(1) has run once beside one tick of the energy loop,
\* starting with one person, and both have returned, the persisted count is 2
\* and current_usage is the (non-zero) value update_energy_data wrote.
C2_LoopWriteKept ==
    (/\ AtRest("h1") /\ loc["h1"].n = 1
     /\ AtRest("energy") /\ loc["energy"].n = 1)
        => /\ PeopleCount(file) = 2
           /\ EnergyData(file)["current_usage"] # 0

CountsNonNegative ==
    /\ PeopleCount(file) >= 0
    /\ \A t \in Threads : loc[t].st.people_count >= 0

\* incr_people(-1) reads a count of 0: the count it saves and returns is 0
DecrementAtZero ==
    \A t \in Threads :
        (/\ pos[t] = "incr_get" /\ pos'[t] = "save_acq"
         /\ loc[t].delta = -1 /\ PeopleCount(file) = 0)
            => loc'[t].st.people_count = 0

\* C3: the persisted people_count, and every count about to be saved or
\* returned, is >= 0 in every reachable state, whatever the interleaving of
\* incr_people(1), incr_people(-1) and set_people_count; a decrement that
\* reads 0 saves and returns 0.
C3_CountNeverNegative == []CountsNonNegative /\ [][DecrementAtZero]_vars

C3_Witness ==
    \E t \in Handlers :
        /\ pos[t] = "save_rep"
        /\ loc[t].delta = -1
        /\ loc[t].caller = "voice"
        /\ loc[t].sret = "incr_ac"
        /\ loc[t].st.people_count = 0

\* the positions whose step reads the store
ReadPositions == {"incr_get", "ued_get", "spc_get", "sugg_p", "sugg_ed", "leds", "main_ed"}

\* C4: every document a read of the store returns is the content of a
\* completed write, or the default document when no write has completed.
C4_ReadsCompletedWrite ==
    [][\A t \in Threads :
          (pos[t] \in ReadPositions /\ pos'[t] # pos[t])
              => \/ ReadFromDisk(file) \in written.docs
                 \/ written.docs = {} /\ ReadFromDisk(file) = DefaultState]_vars

WritingFile(t) == pos[t] \in {"save_rep", "reset_write"}

\* C5: a thread that is writing the state file holds the store lock, so no
\* two threads write it at the same time.
C5_WritersHoldLock ==
    /\ \A t \in Threads : WritingFile(t) => lock = t
    /\ Cardinality({t \in Threads : WritingFile(t)}) <= 1

----------------------------------------------------------------------------
\* The edge detector

BothRecorded == laser_times.L1 # 0 /\ laser_times.L2 # 0

\* the timestamps process_lasers sees when channel ch records a falling edge
Recorded(ch) == [laser_times EXCEPT ![ch] = now]

\* this step is the callback of channel ch taking a falling edge that passes
\* the debounce test
FallingEdge(ch) == Callback(ch, 0) /\ ~Bounce(TickOf(now), last_tick[ch])

\* this step leaves the callback thread calling incr_people(d)
Applies(d) ==
    /\ pos'["cb"] = "incr_get"
    /\ loc'["cb"].delta = d
    /\ loc'["cb"].caller = "lasers"

InWindow(lt) == lt.L1 # 0 /\ lt.L2 # 0 /\ Abs(lt.L2 - lt.L1) <= TIME_THRESHOLD

PairsInOrder ==
    \A ch \in {"L1", "L2"} :
        LET lt == Recorded(ch)
        IN  (FallingEdge(ch) /\ InWindow(lt))
                => /\ Applies(1) <=> lt.L1 < lt.L2
                   /\ Applies(-1) <=> lt.L2 < lt.L1

\* while the callback thread is inside incr_people the delta it passed is the
\* one the order of the two recorded timestamps calls for
DeltaFollowsOrder ==
    (pos["cb"] \in {"incr_get", "save_acq", "save_rep", "sugg_p", "sugg_ed",
                    "sugg_chk", "incr_ac"})
        => /\ InWindow(laser_times)
           /\ loc["cb"].caller = "lasers"
           /\ loc["cb"].delta = 1 <=> laser_times.L1 < laser_times.L2
           /\ loc["cb"].delta = -1 <=> laser_times.L2 < laser_times.L1

\* C6: when process_lasers runs with both timestamps recorded and no more
\* than TIME_THRESHOLD apart, it calls incr_people(1) if and only if L1 came
\* before L2 and incr_people(-1) if and only if L2 came before L1.
C6_PairingDirection == [][PairsInOrder]_vars /\ []DeltaFollowsOrder

\* L1 at 0.01 s and L2 0.15 s later: an entry, incr_people(1) has returned
C6_Witness ==
    /\ pos["cb"] = "pl_clear"
    /\ decision = "entry"
    /\ loc["cb"].delta = 1
    /\ laser_times.L1 # 0
    /\ laser_times.L2 - laser_times.L1 = 15

OutOfWindow(lt) == lt.L1 # 0 /\ lt.L2 # 0 /\ Abs(lt.L2 - lt.L1) > TIME_THRESHOLD

\* C7: when process_lasers runs with both timestamps recorded and more than
\* TIME_THRESHOLD apart, it calls nothing that changes the store, leaves the
\* persisted document as it is and clears both timestamps.
C7_StaleDiscarded ==
    [][\A ch \in {"L1", "L2"} :
          (FallingEdge(ch) /\ OutOfWindow(Recorded(ch)))
              => /\ file' = file
                 /\ laser_times' = Cleared
                 /\ pos'["cb"] = "idle"
                 /\ loc'["cb"] = loc["cb"]]_vars

C7_Witness ==
    /\ decision = "stale"
    /\ laser_times = Cleared
    /\ pos["cb"] = "idle"
    /\ last_tick.L1 # 0
    /\ last_tick.L2 # 0

\* C8: when process_lasers has finished an evaluation that found both
\* timestamps recorded (entry, exit, equal, out of window), both timestamps
\* are zero; the detector never rests with both timestamps pending.
C8_TimestampsConsumed ==
    /\ (pos["cb"] \in {"idle", "leds"} /\ decision \in {"entry", "exit", "same", "stale"})
           => laser_times = Cleared
    /\ pos["cb"] \in {"idle", "leds"} => ~BothRecorded

C8_Witness ==
    /\ pos["cb"] = "idle"
    /\ decision = "exit"
    /\ laser_times = Cleared

----------------------------------------------------------------------------
\* The override

Ed == EnergyData(file)

\* no handler is inside a request that sets or clears the override
NoOverrideOp == \A t \in Handlers : loc[t].caller \notin {"apply", "clear", "settemp"}

\* C9: once an override is persisted (ac_override true, ac_current the
\* rounded setpoint), every step that is not part of a request setting or
\* clearing the override leaves ac_override true and ac_current as it was.
C9_OverridePinned ==
    [][(Ed.ac_override /\ NoOverrideOp /\ NoOverrideOp')
          => (Ed'.ac_override /\ Ed'.ac_current = Ed.ac_current)]_vars

\* this step is the last write of a recomputation by thread t: the second
\* update of a suggestion_loop iteration, or the second save of incr_people
RecomputationCompletes(t) ==
    /\ pos[t] = "save_rep"
    /\ pos'[t] # "save_rep"
    /\ \/ t = "ac" /\ loc[t].ret = "idle"
       \/ loc[t].caller = "voice" /\ loc[t].sret # "incr_ac"

NoOverride == manual = None /\ ~Ed.ac_override /\ NoOverrideOp

\* C10: with no override active before and after it, the step that completes
\* a recomputation leaves persisted ac_current equal to persisted
\* ac_suggestion and ac_override false.
C10_CurrentFollowsSuggestion ==
    [][\A t \in Threads :
          (RecomputationCompletes(t) /\ NoOverride /\ manual' = None /\ NoOverrideOp')
              => (Ed'.ac_current = Ed'.ac_suggestion /\ ~Ed'.ac_override)]_vars

----------------------------------------------------------------------------
\* suggest_temp as a function of what it reads

MaxOccupancy == 10

Occupancies == (0 .. MaxOccupancy) \cup {1000}
RoomTemps == {-100} \cup {220 + 5 * i : i \in 0 .. 16}
RoomHums == {200, 400, 600, 610, 700, 1000}

\* a state file holding p people at temperature t and humidity h
SuggestDoc(p, t, h) ==
    [InitialData EXCEPT !.people_count = p,
                        !.energy_data.temperature = t,
                        !.energy_data.humidity = h]

InitSuggest ==
    /\ \E p \in Occupancies, t \in RoomTemps, h \in RoomHums :
          file = OnDisk(SuggestDoc(p, t, h))
    /\ written = [tracked |-> FALSE, docs |-> {}]
    /\ led = LedLevel(PeopleCount(file))
    /\ pos = [t \in Threads |-> IF t = "main" THEN "serve" ELSE "idle"]
    /\ Quiet

\* the suggestion loop alone: nothing else writes the store
NextSuggest ==
    \/ AcTick
    \/ AcUpd1
    \/ AcChk
    \/ SuggP("ac")
    \/ SuggEd("ac")
    \/ SuggChk("ac")
    \/ UedGet("ac")
    \/ SaveAcquire("ac")
    \/ SaveReplace("ac")

SpecSuggest == InitSuggest /\ [][NextSuggest]_vars

\* C11: every value suggest_temp has returned to a caller is an integer from
\* 18 to 27.
C11_SuggestionInRange ==
    \A t \in Threads : loc[t].s # None => loc[t].s \in 18 .. 27

\* the reference function of the claim, in hundredths of a degree
RefBase(n) ==
    CASE n = 0 -> 2700
      [] n = 1 -> 2500
      [] OTHER -> 2400 - Min(120, 15 * (n - 1))

RefHumid(n, h) == IF h > 600 THEN RefBase(n) - 50 ELSE RefBase(n)

RefNudged(n, t, h) ==
    IF 10 * t <= RefHumid(n, h) + 50
       THEN Min(RefHumid(n, h) + 100, 2700)
       ELSE RefHumid(n, h)

RefClamped(n, t, h) == Min(2700, Max(1800, RefNudged(n, t, h)))

\* r is an integer nearest to the clamped reference value
IsReference(r, n, t, h) ==
    /\ r \in 18 .. 27
    /\ Abs(100 * r - RefClamped(n, t, h)) <= 50

SuggestReturned == pos["ac"] = "ac_upd1" /\ ~loc["ac"].err

\* C12: with no override, the value suggest_temp returns is the reference
\* function of the people count, temperature and humidity in the store; for
\* 0 people, 22.0 degrees and 40 % it is 27, for 2 people, 30.0 degrees and
\* 70 % it is 23.
C12_MatchesReference ==
    SuggestReturned =>
        LET n == PeopleCount(file)
            t == Ed.temperature
            h == Ed.humidity
            r == loc["ac"].s
        IN  /\ IsReference(r, n, t, h)
            /\ (n = 0 /\ t = 220 /\ h = 400) => r = 27
            /\ (n = 2 /\ t = 300 /\ h = 700) => r = 23

C12_Witness ==
    /\ SuggestReturned
    /\ PeopleCount(file) = 2
    /\ Ed.temperature = 300
    /\ Ed.humidity = 700
    /\ loc["ac"].s = 23

----------------------------------------------------------------------------
\* The energy reset

\* one person has been in the room for a while: the energy loop has written
\* a usage of 0.20 kW (the total does not move at that rate)
InitReset ==
    /\ file = OnDisk([PrevRun(1) EXCEPT !.energy_data =
                         DictUpdate(@, EnergyUpdates(@, 20))])
    /\ written = [tracked |-> FALSE, docs |-> {}]
    /\ led = LedLevel(1)
    /\ pos = [t \in Threads |-> IF t = "main" THEN "serve" ELSE "idle"]
    /\ Quiet

\* the person leaves (a voice "decrease people") beside the energy loop and
\* the DHT thread
NextReset ==
    \/ VoiceDecrease("h1")
    \/ EnergyTick
    \/ EnergyEd
    \/ DhtRead
    \/ \E t \in {"h1", "energy", "dht"} :
          \/ IncrGet(t)
          \/ SaveAcquire(t)
          \/ SaveReplace(t)
          \/ SuggP(t)
          \/ SuggEd(t)
          \/ SuggChk(t)
          \/ IncrAc(t)
          \/ UedGet(t)

SpecReset == InitReset /\ [][NextReset]_vars

EnergyZero ==
    /\ Get(Ed, "current_usage", 0) = 0
    /\ Get(Ed, "total_consumption", 0) = 0
    /\ Get(Ed, "cost", 0) = 0
    /\ Get(Ed, "cost_usd", 0) = 0
    /\ Get(Ed, "cost_inr", 0) = 0

\* this step is the write that ends an energy tick which found the room empty
ResetTickCompletes ==
    /\ pos["energy"] = "save_rep"
    /\ pos'["energy"] = "idle"
    /\ loc["energy"].upd = ZeroUpdates

\* an energy tick has completed and the store shows an empty room with the
\* energy fields at zero
ResetDone ==
    /\ pos["energy"] = "idle"
    /\ loc["energy"].n >= 1
    /\ PeopleCount(file) = 0
    /\ EnergyZero

\* C13: the write that ends an energy tick which found the room empty
\* leaves current_usage, total_consumption, cost, cost_usd and cost_inr at 0,
\* and once they are 0 with people_count 0 they stay 0 for as long as
\* people_count stays 0, whatever the other writers do.
C13_EnergyStaysReset ==
    [][/\ ResetTickCompletes => EnergyZero'
       /\ (ResetDone /\ PeopleCount(file)' = 0) => EnergyZero']_vars

----------------------------------------------------------------------------
\* Startup and the defaults

\* this step is taken by main during its startup sequence
StartupStep == pos["main"] # "serve" /\ pos'["main"] # pos["main"]

\* C14: the startup sequence of main leaves the people_count that a read of
\* the store returns as the previous run left it.
C14_CountSurvivesRestart ==
    [][StartupStep => PeopleCount(file)' = PeopleCount(file)]_vars

\* this step is reset_state returning, its content having reached state.json
ResetReturns == pos["main"] = "reset_write" /\ pos'["main"] = "start" /\ fdLive

\* C15: the document a get_state right after reset_state returns equals,
\* field for field, the default document get_state returns when there is no
\* state file.
C15_ResetWritesDefaults ==
    [][ResetReturns => ReadFromDisk(file)' = ReadFromDisk(Missing)]_vars

\* state.json is missing, or cannot be read or parsed
Unreadable == file.kind # "json"

\* what the read of thread t must give when it starts from the defaults
FromDefaults(t) ==
    CASE pos[t] = "incr_get" ->
           /\ pos'[t] = "save_acq"
           /\ loc'[t].st = [DefaultState EXCEPT !.people_count = Max(0, loc[t].delta)]
      [] pos[t] = "ued_get" ->
           /\ pos'[t] = "save_acq"
           /\ loc'[t].st = [DefaultState EXCEPT
                              !.energy_data = DictUpdate(DefaultEnergy, loc[t].upd)]
      [] pos[t] = "sugg_p" -> pos'[t] = "sugg_ed" /\ loc'[t].p = 0
      [] pos[t] = "sugg_ed" ->
           /\ pos'[t] = "sugg_chk"
           /\ loc'[t].s = SuggestAuto(loc[t].p, DefaultEnergy.temperature,
                                      DefaultEnergy.humidity)
      [] pos[t] = "leds" -> pos'[t] = "idle" /\ led' = LedLevel(0)
      [] OTHER -> pos'[t] \in {"ued_get", "serve"}

\* C16: while state.json is missing or unreadable, every read of the store
\* gives the default document and the operation built on it goes on
\* normally from the defaults.
C16_DefaultsWhenUnreadable ==
    [][\A t \in Threads :
          (Unreadable /\ pos[t] \in ReadPositions /\ pos'[t] # pos[t])
              => FromDefaults(t)]_vars

\* incr_people(1) has read an unreadable file and is about to save a count of 1
C16_Witness ==
    /\ Unreadable
    /\ pos["cb"] = "save_acq"
    /\ loc["cb"].sret = "incr_ac"
    /\ loc["cb"].st = [DefaultState EXCEPT !.people_count = 1]

----------------------------------------------------------------------------
\* The side effects of a delta

\* the store as a run with n people left it, with the override set or not
DetectorDoc(n, ov) ==
    IF ov = None THEN PrevRun(n)
    ELSE [PrevRun(n) EXCEPT !.energy_data = DictUpdate(@, OverrideUpdates(ov))]

InitDetector ==
    /\ \E n \in 0 .. 1, ov \in {None, 225} :
          /\ file = OnDisk(DetectorDoc(n, ov))
          /\ manual = ov
    /\ written = [tracked |-> FALSE, docs |-> {}]
    /\ led = LedLevel(PeopleCount(file))
    /\ pos = [t \in Threads |-> IF t = "main" THEN "serve" ELSE "idle"]
    /\ lock = "free"
    /\ fdLive = FALSE
    /\ laser_times = Cleared
    /\ last_tick = [L1 |-> 0, L2 |-> 0]
    /\ now = 1
    /\ decision = "none"
    /\ loc = [t \in Threads |-> LocInit]

\* the edge detector with no other writer of the store
NextDetector ==
    \/ l1_callback
    \/ l2_callback
    \/ PlClear
    \/ Advance
    \/ Leds("cb")
    \/ IncrGet("cb")
    \/ SaveAcquire("cb")
    \/ SaveReplace("cb")
    \/ SuggP("cb")
    \/ SuggEd("cb")
    \/ SuggChk("cb")
    \/ SuggUse("cb")
    \/ IncrAc("cb")

SpecDetector == InitDetector /\ [][NextDetector]_vars

\* the callback thread is inside the incr_people of an emitted delta
Emitted == loc["cb"].caller = "lasers" /\ loc["cb"].delta \in {1, -1}

\* what suggest_temp returns for the store as it is
SuggestNow ==
    IF manual # None THEN RoundSetpoint(manual)
    ELSE SuggestAuto(PeopleCount(file), Ed.temperature, Ed.humidity)

\* first: the clamped count is persisted, and nothing else has happened yet
CountSavedFirst ==
    (Emitted /\ pos["cb"] = "save_rep" /\ loc["cb"].sret = "incr_ac"
       /\ pos'["cb"] # "save_rep")
        => /\ PeopleCount(file)' = Max(0, PeopleCount(file) + loc["cb"].delta)
           /\ Ed' = Ed
           /\ led' = led
           /\ pos'["cb"] = "sugg_p"

\* second: the AC fields recomputed from the new count are persisted
SuggestionSavedNext ==
    (Emitted /\ pos["cb"] = "save_rep" /\ loc["cb"].sret # "incr_ac"
       /\ pos'["cb"] # "save_rep")
        => /\ PeopleCount(file)' = PeopleCount(file)
           /\ Ed'.ac_suggestion = SuggestNow
           /\ Ed'.ac_override = Ed.ac_override
           /\ Ed'.ac_current = IF Ed.ac_override THEN Ed.ac_current ELSE SuggestNow
           /\ led' = led
           /\ pos'["cb"] = "pl_clear"

\* last: update_leds runs, on the count and the suggestion persisted before
LedsLast ==
    /\ led' # led => pos["cb"] = "leds"
    /\ (pos["cb"] = "leds" /\ pos'["cb"] = "idle" /\ decision \in {"entry", "exit"})
           => /\ PeopleCount(file) = loc["cb"].st.people_count
              /\ Ed.ac_suggestion = SuggestNow
              /\ led' = 0 <=> PeopleCount(file) >= 1
              /\ led' = 1 <=> PeopleCount(file) = 0

\* C17: for a delta emitted by process_lasers the clamped people_count is
\* persisted first, then the AC fields recomputed from the new count
\* (ac_current only without an override), and update_leds runs last and
\* reads the count after the delta.
C17_SideEffectOrder == [][CountSavedFirst /\ SuggestionSavedNext /\ LedsLast]_vars

\* an entry into the empty room has been processed to the end
C17_Witness ==
    /\ pos["cb"] = "idle"
    /\ decision = "entry"
    /\ manual = None
    /\ PeopleCount(file) = 1
    /\ Ed.ac_suggestion = 25
    /\ Ed.ac_current = 25
    /\ led = 0

----------------------------------------------------------------------------
\* Recomputation on a change of the count

\* handler h1 has served its requests alone: h2 has never taken one
ServedAlone == AtRest("h1") /\ AtRest("h2") /\ loc["h2"].n = 0

\* C18: whenever a handler working alone has completed its requests
\* (incr_people, or set_people_count by the voice lights commands), persisted
\* ac_suggestion is what suggest_temp gives for the persisted people_count.
C18_SuggestionFollowsCount == ServedAlone => Ed.ac_suggestion = SuggestNow

----------------------------------------------------------------------------
\* The debounce

Channels == {"L1", "L2"}

Other(ch) == IF ch = "L1" THEN "L2" ELSE "L1"

\* the time, in ticks, since the last accepted event on pin ch
Elapsed(ch) == (TickOf(now) - last_tick[ch]) % (2 ^ TickWidth)

WithinDebounce(ch) == Elapsed(ch) < (DEBOUNCE_MS * 1000) \div 16

\* this step is a callback doing something: the callback thread leaves its
\* rest, or a variable of the detector changes
CallbackActs ==
    /\ pos["cb"] = "idle"
    /\ \/ last_tick' # last_tick
       \/ laser_times' # laser_times
       \/ decision' # decision
       \/ pos'["cb"] # "idle"
       \/ loc'["cb"] # loc["cb"]

\* the step is accounted for by an event on pin ch that is not within the
\* debounce time
AcceptedOn(ch) ==
    /\ ~WithinDebounce(ch)
    /\ last_tick' = [last_tick EXCEPT ![ch] = TickOf(now)]
    /\ laser_times'[ch] \in {laser_times[ch], now, 0}
    /\ laser_times'[Other(ch)] \in {laser_times[Other(ch)], 0}

\* C19: an event on a pin less than DEBOUNCE_MS after the last accepted
\* event on that pin changes nothing: whenever a callback changes a tick, a
\* timestamp or starts a pairing, the event is on a pin whose last accepted
\* event is at least DEBOUNCE_MS old, and no callback writes the store in
\* its first step.
C19_DebounceIgnores ==
    [][CallbackActs => (file' = file /\ \E ch \in Channels : AcceptedOn(ch))]_vars

\* an event on L1 has just been accepted: another one now is a bounce
C19_Witness ==
    /\ pos["cb"] = "idle"
    /\ last_tick.L1 = TickOf(now)
    /\ Bounce(TickOf(now), last_tick.L1)
    /\ laser_times.L1 = now

----------------------------------------------------------------------------
\* Equal timestamps

Tied(lt) == lt.L1 # 0 /\ lt.L2 = lt.L1

\* process_lasers finds both timestamps recorded and equal
TieEvaluated ==
    \A ch \in Channels :
        (FallingEdge(ch) /\ Tied(Recorded(ch)))
            => /\ file' = file
               /\ laser_times' = Cleared
               /\ pos'["cb"] = "leds"
               /\ loc'["cb"] = loc["cb"]

\* the update_leds that follows writes nothing to the store
TieFinished ==
    (pos["cb"] = "leds" /\ decision = "same" /\ pos'["cb"] # "leds")
        => /\ file' = file
           /\ laser_times' = Cleared
           /\ pos'["cb"] = "idle"

\* C20: when both timestamps are recorded and equal, process_lasers calls
\* no incr_people, leaves the persisted document as it is and clears both
\* timestamps.
C20_TieIsNoOp == [][TieEvaluated /\ TieFinished]_vars

C20_Witness ==
    /\ pos["cb"] = "idle"
    /\ decision = "same"
    /\ laser_times = Cleared
    /\ last_tick.L1 = last_tick.L2
    /\ last_tick.L1 = TickOf(now)

----------------------------------------------------------------------------
\* The round trip save_state(get_state())

\* st = get_state(), to be passed to save_state
RoundTripGet(t) ==
    /\ Serving(t)
    /\ lock = "free"
    /\ Step(t, "save_acq",
            [Took(t) EXCEPT !.st = ReadFromDisk(file), !.ret = "idle", !.caller = "roundtrip"])
    /\ UNCHANGED <<file, lock, fdLive, manual, Sensors, led, written>>

\* the files the round trip is tried on: none, one that does not parse, and
\* the documents of earlier runs
StoredDocs ==
    {DetectorDoc(n, ov) : n \in 0 .. MaxPeople, ov \in {None, 225}}
        \cup {SuggestDoc(n, t, h) : n \in 0 .. MaxPeople, t \in DhtTemps, h \in DhtHums}

InitRoundTrip ==
    /\ file \in {Missing, Truncated} \cup {OnDisk(d) : d \in StoredDocs}
    /\ written = [tracked |-> FALSE, docs |-> {}]
    /\ led = LedLevel(PeopleCount(file))
    /\ pos = [t \in Threads |-> IF t = "main" THEN "serve" ELSE "idle"]
    /\ Quiet

\* one thread doing round trips, and no other writer
NextRoundTrip ==
    \/ RoundTripGet("h1")
    \/ SaveAcquire("h1")
    \/ SaveReplace("h1")

SpecRoundTrip == InitRoundTrip /\ [][NextRoundTrip]_vars

\* this step is the save_state of a round trip returning
RoundTripReturns ==
    /\ pos["h1"] = "save_rep"
    /\ loc["h1"].caller = "roundtrip"
    /\ pos'["h1"] = "idle"

\* C21: save_state(get_state()) leaves what get_state returns as it was,
\* also when there was no state file, and a second round trip changes
\* nothing at all.
C21_RoundTripIsNoOp ==
    [][RoundTripReturns =>
          /\ ReadFromDisk(file)' = ReadFromDisk(file)
          /\ loc["h1"].n >= 2 => file' = file]_vars

\* two round trips have been made, starting with no readable state file
C21_Witness ==
    /\ pos["h1"] = "idle"
    /\ loc["h1"].n = 2
    /\ file = OnDisk(DefaultState)

----------------------------------------------------------------------------
\* Failing side effects

\* one handler serving POST / with nothing else running; the recomputation,
\* the LED write and the display call may each fail
NextFailure ==
    \/ IndexPost("h1")
    \/ IdxEd("h1")
    \/ DrawFace("h1")
    \/ IncrGet("h1")
    \/ SaveAcquire("h1")
    \/ SaveReplace("h1")
    \/ SuggP("h1")
    \/ SuggFail("h1")
    \/ SuggEd("h1")
    \/ SuggChk("h1")
    \/ IncrAc("h1")
    \/ UedGet("h1")
    \/ Leds("h1")
    \/ LedsFail("h1")

SpecFailure == (\E n \in 0 .. 1 : Running(n)) /\ [][NextFailure]_vars

\* incr_people has saved the new count and has not returned to rest yet
CountSaved(t) ==
    /\ loc[t].caller = "index"
    /\ \/ pos[t] \in {"sugg_p", "sugg_ed", "sugg_chk", "incr_ac", "idx_ed", "ued_get",
                      "leds", "draw"}
       \/ pos[t] \in {"save_acq", "save_rep"} /\ loc[t].sret # "incr_ac"

\* the new count is persisted and stays persisted
CountStaysSaved ==
    CountSaved("h1") => PeopleCount(file) = loc["h1"].st.people_count

\* the recomputation inside incr_people has failed: incr_people returns
RecomputationFailureCaught ==
    (pos["h1"] = "incr_ac" /\ loc["h1"].err /\ pos'["h1"] # "incr_ac")
        => /\ pos'["h1"] = AfterIncr(loc["h1"].caller)
           /\ file' = file

\* the LED write or the display call has failed or not: the request ends
IndicatorFailureIsolated ==
    /\ (pos["h1"] = "leds" /\ pos'["h1"] # "leds") => (pos'["h1"] = "draw" /\ file' = file)
    /\ (pos["h1"] = "draw" /\ pos'["h1"] # "draw") => (pos'["h1"] = "idle" /\ file' = file)

\* C22: a failure of the recomputation inside incr_people, of the LED write
\* or of the display call does not undo the update: the new people_count is
\* persisted before, stays persisted, incr_people returns and the thread
\* goes on.
C22_FailureIsolation ==
    /\ []CountStaysSaved
    /\ [](pos["h1"] # "dead")
    /\ [][RecomputationFailureCaught /\ IndicatorFailureIsolated]_vars

\* the recomputation and the LED write have both failed after a decrement to
\* 0: the count is saved, the suggestion and the LEDs still show one person
C22_Witness ==
    /\ pos["h1"] = "draw"
    /\ PeopleCount(file) = 0
    /\ loc["h1"].st.people_count = 0
    /\ loc["h1"].delta = -1
    /\ Ed.ac_suggestion = 25
    /\ led = 0

----------------------------------------------------------------------------
\* The AC loop keeps running

\* C23: the AC recomputation loop never stops abnormally, whatever
\* apply_manual_setpoint and clear_manual_setpoint do during a tick.
C23_LoopNeverStops == pos["ac"] # "dead"

----------------------------------------------------------------------------
\* Voice commands "lights on" and "lights off"

\* set_people_count(value), called by a voice command, saves and returns
SetPeopleReturns(t, value) ==
    /\ pos[t] = "save_rep"
    /\ loc[t].caller = "none"
    /\ loc[t].delta = value
    /\ pos'[t] = "idle"

\* "lights on" ends: with the save of set_people_count(1), or at once when
\* the count is 1 or more
LightsOnEnds(t) ==
    \/ SetPeopleReturns(t, 1)
    \/ VoiceLightsOn(t) /\ pos'[t] = "idle"

LightsOffEnds(t) == SetPeopleReturns(t, 0)

\* C25: with nothing else running, people_count is 0 after "lights off" and
\* 1 after "lights on", whatever it was before.
C25_LightsSetCount ==
    [][(AtRest("h2") /\ loc["h2"].n = 0)
          => /\ LightsOffEnds("h1") => PeopleCount(file)' = 0
             /\ LightsOnEnds("h1") => PeopleCount(file)' = 1]_vars

----------------------------------------------------------------------------
\* Energy accumulation

\* the energy loop saves the updates of a tick that found the room occupied
OccupiedTickSaves ==
    /\ pos["energy"] = "save_rep"
    /\ loc["energy"].current > 0
    /\ pos'["energy"] = "idle"

\* C26: a tick of the energy loop with people_count >= 1 and no other writer
\* sets current_usage to about people_count * 0.2 and leaves
\* total_consumption strictly greater than before, occupancy 1 included.
C26_TotalGrows ==
    [][(OccupiedTickSaves /\ AtRest("h1") /\ loc["h1"].n = 0)
          => /\ Abs(EnergyData(file).current_usage' - PeopleCount(file) * 20) <= 2
             /\ EnergyData(file).total_consumption' > EnergyData(file).total_consumption]_vars

----------------------------------------------------------------------------
\* Debounce across the wrap of the tick counter

\* C27: an edge that arrives DEBOUNCE_MS or more after the last accepted
\* event on its pin passes the debounce test, whatever the two tick values
\* are, wrap-around of the tick counter included.
C27_LateEdgeAccepted ==
    \A ch \in Channels :
        (pos["cb"] = "idle" /\ last_tick[ch] # 0 /\ ~WithinDebounce(ch))
            => ~Bounce(TickOf(now), last_tick[ch])

----------------------------------------------------------------------------
\* One crossing, one count

\* the persisted count changes by one at most, and only in the first save of
\* an incr_people called for a pair of timestamps within the window
CountChangesOnPair ==
    /\ Abs(PeopleCount(file)' - PeopleCount(file)) <= 1
    /\ PeopleCount(file)' # PeopleCount(file)
          => /\ pos["cb"] = "save_rep"
             /\ loc["cb"].sret = "incr_ac"
             /\ InWindow(laser_times)

\* the pair is consumed when incr_people has returned, and no timestamp is
\* recorded while a pair is being handled
PairConsumed ==
    /\ (pos["cb"] = "pl_clear" /\ pos'["cb"] # "pl_clear") => laser_times' = Cleared
    /\ (laser_times' # laser_times /\ laser_times' # Cleared) => pos["cb"] = "idle"

\* C28: one accepted trigger on L1 and one on L2 within the window change
\* people_count by one at most: the count changes once per pair handled,
\* the pair is cleared before the callback thread takes the next event, and
\* the detector never rests with a pair pending.
C28_CrossingCountedOnce ==
    /\ [][CountChangesOnPair /\ PairConsumed]_vars
    /\ []((pos["cb"] = "idle") => ~BothRecorded)

\* an entry from 1 person has been counted once and the pair is consumed
C28_Witness ==
    /\ pos["cb"] = "idle"
    /\ decision = "entry"
    /\ laser_times = Cleared
    /\ PeopleCount(file) = 2
    /\ led = LedLevel(2)

----------------------------------------------------------------------------
\* A pending timestamp does not expire

\* an accepted trigger on ch while the other channel has nothing pending
\* records (or replaces) the timestamp of ch and calls nothing
TriggerOnlyRecords ==
    \A ch \in Channels :
        (FallingEdge(ch) /\ laser_times[Other(ch)] = 0)
            => /\ laser_times' = Recorded(ch)
               /\ pos'["cb"] = "idle"
               /\ loc'["cb"] = loc["cb"]
               /\ file' = file

\* a pending timestamp changes only when its channel fires again or when the
\* other channel has fired and the pair is cleared
PendingStays ==
    \A ch \in Channels :
        (laser_times[ch] # 0 /\ laser_times'[ch] # laser_times[ch])
            => \/ FallingEdge(ch) /\ laser_times[Other(ch)] = 0 /\ laser_times'[ch] = now
               \/ FallingEdge(Other(ch)) /\ laser_times' = Cleared
               \/ pos["cb"] = "pl_clear" /\ laser_times' = Cleared

\* incr_people is called for timestamps within the window only
DeltaWithinWindow ==
    (pos["cb"] = "idle" /\ pos'["cb"] = "incr_get") => InWindow(laser_times')

\* C29: a recorded timestamp has no expiry.  A repeated accepted trigger on
\* the same channel replaces the pending timestamp and emits no delta; the
\* pending timestamp stays until the other channel fires and is then paired
\* or discarded; no delta comes from two triggers more than TIME_THRESHOLD
\* apart.
C29_PendingHasNoExpiry ==
    [][TriggerOnlyRecords /\ PendingStays /\ DeltaWithinWindow]_vars

\* L1 fired at 0.16 s and is still pending 0.31 s later
C29_Witness ==
    /\ pos["cb"] = "idle"
    /\ decision = "wait"
    /\ laser_times.L1 = 16
    /\ laser_times.L2 = 0
    /\ now = laser_times.L1 + TIME_THRESHOLD + 1

----------------------------------------------------------------------------
\* The two records of the override

\* no store or AC operation is in progress
NothingInProgress == \A t \in Handlers \cup Loops : pos[t] \in {"idle", "dead"}

\* C30: whenever no store or AC operation is in progress, persisted
\* ac_override is true exactly when _manual_setpoint is set, and
\* ac_current is then the rounded setpoint.
C30_OverrideRecordsAgree ==
    NothingInProgress
        => /\ Ed.ac_override <=> manual # None
           /\ manual # None => Ed.ac_current = RoundSetpoint(manual)

----------------------------------------------------------------------------
\* The store lock

\* the steps of thread t inside an operation
Internal(t) ==
    \/ SpcGet(t)
    \/ IncrGet(t)
    \/ SaveAcquire(t)
    \/ SaveReplace(t)
    \/ SaveFail(t)
    \/ SuggP(t)
    \/ SuggEd(t)
    \/ SuggChk(t)
    \/ IncrAc(t)

LockUsers == {"h1", "h2"}

\* two request threads share the store: one calls incr_people, the other
\* set_people_count; a write may fail
NextLock ==
    \/ VoiceIncrease("h1")
    \/ VoiceLightsOff("h2")
    \/ \E t \in LockUsers : Internal(t)

\* fair scheduling: a thread that can take a step again and again, the
\* acquisition of the lock included, takes it
SpecLock ==
    /\ Running(1)
    /\ [][NextLock]_vars
    /\ \A t \in LockUsers : SF_vars(Internal(t))

\* the lock is held by a thread inside the with block of save_state and by
\* no other: no thread asks for the lock while it holds it
HeldInsideSave ==
    \A t \in LockUsers : lock = t <=> pos[t] = "save_rep"

InStoreCall(t) == pos[t] \in {"incr_get", "spc_get", "save_acq", "save_rep"}

\* C24: no store operation blocks for ever.  The lock is held only inside
\* the with block of save_state (get_state takes and releases it within its
\* own step), never across another acquisition by the same thread; it is
\* released on every way out, a failed write included; under fair
\* scheduling every store call returns and every operation ends.
C24_NoStoreCallBlocks ==
    /\ []HeldInsideSave
    /\ (lock # "free") ~> (lock = "free")
    /\ \A t \in LockUsers :
          /\ InStoreCall(t) ~> ~InStoreCall(t)
          /\ (pos[t] # "idle") ~> (pos[t] \in {"idle", "dead"})

\* one request thread waits for the lock while the other holds it
C24_Witness ==
    /\ pos["h1"] = "save_acq"
    /\ lock = "h2"
    /\ pos["h2"] = "save_rep"

====
